---- MODULE Spec2Model ----
(***************************************************************************)
(* Persona ChatBot (src/main.py): the conversation history held in the     *)
(* Streamlit session, its optional mirror in chat_history.json, and the    *)
(* three button handlers (Send, Clear History, Export JSON).               *)
(*                                                                         *)
(* Python values are modelled as tagged records [t, v]:                    *)
(*   str   -> v is a sequence of one-character strings                     *)
(*   num   -> v is a natural number (time.time() counted in clock ticks)   *)
(*   list  -> v is a sequence of values                                    *)
(*   dict  -> v is a sequence of <<key, value>> pairs in insertion order,  *)
(*            key a sequence of characters, keys unique                    *)
(*   none  -> v is 0                                                       *)
(* A file is [exists, data], data the sequence of characters it holds.     *)
(* Texts are sequences of encodable Unicode characters.                    *)
(***************************************************************************)
EXTENDS Integers, Sequences, FiniteSets, TLC

VARIABLES
    history,          \* st.session_state.history
    file,             \* chat_history.json on disk
    persist_to_disk,  \* checkbox "Save chat to disk"
    persona_key,      \* selectbox "Persona"
    rendered,         \* what render_chat drew in the latest script run
    messages,         \* the prompt handed to the completion client in this run
    calls,            \* calls of client.chat.completions.create in this run
    notice,           \* the last st.warning / st.error / st.success call of this run
    export_json,      \* data of the download button in this run
    now,              \* the wall clock read by time.time()
    trigger           \* what the latest script run handled

vars == <<history, file, persist_to_disk, persona_key, rendered,
          messages, calls, notice, export_json, now, trigger>>

-----------------------------------------------------------------------------
(* Bounds of the model *)

MaxTurns == 3
MaxClock == 1
MaxSampleTurns == 2
WindowSlack == 2

-----------------------------------------------------------------------------
(* Python values *)

PStr(s) == [t |-> "str", v |-> s]
PNum(n) == [t |-> "num", v |-> n]
PList(s) == [t |-> "list", v |-> s]
PDict(s) == [t |-> "dict", v |-> s]
PNone == [t |-> "none", v |-> 0]

QUOTE == "\""
BSLASH == "\\"
NL == "\n"

K_role == <<"r", "o", "l", "e">>
K_text == <<"t", "e", "x", "t">>
K_ts == <<"t", "s">>
K_history == <<"h", "i", "s", "t", "o", "r", "y">>
K_saved_at == <<"s", "a", "v", "e", "d", "_", "a", "t">>
K_exported_at == <<"e", "x", "p", "o", "r", "t", "e", "d", "_", "a", "t">>
K_persona == <<"p", "e", "r", "s", "o", "n", "a">>
K_model == <<"m", "o", "d", "e", "l">>
K_content == <<"c", "o", "n", "t", "e", "n", "t">>
S_user == <<"u", "s", "e", "r">>
S_assistant == <<"a", "s", "s", "i", "s", "t", "a", "n", "t">>
S_system == <<"s", "y", "s", "t", "e", "m">>

Min(a, b) == IF a <= b THEN a ELSE b
Max(a, b) == IF a >= b THEN a ELSE b

\* d.get(key, default)
RECURSIVE dict_find(_, _, _)
dict_find(pairs, key, i) ==
    IF i > Len(pairs) THEN 0
    ELSE IF pairs[i][1] = key THEN i
    ELSE dict_find(pairs, key, i + 1)

dict_get(d, key, default) ==
    LET i == dict_find(d.v, key, 1)
    IN  IF i = 0 THEN default ELSE d.v[i][2]

\* d[key] = value
dict_set(pairs, key, value) ==
    LET i == dict_find(pairs, key, 1)
    IN  IF i = 0 THEN Append(pairs, <<key, value>>)
        ELSE [pairs EXCEPT ![i] = <<key, value>>]

\* s[-k:]
slice_last(s, k) == SubSeq(s, Max(1, Len(s) - k + 1), Len(s))

\* str.strip(): leading and trailing whitespace removed
IsSpace(c) == c \in {" ", NL}

RECURSIVE lstrip(_)
lstrip(s) ==
    IF s # <<>> /\ IsSpace(Head(s)) THEN lstrip(Tail(s)) ELSE s

RECURSIVE rstrip(_)
rstrip(s) ==
    IF s # <<>> /\ IsSpace(s[Len(s)]) THEN rstrip(SubSeq(s, 1, Len(s) - 1)) ELSE s

\* faulty variant: the input used as typed
strip_none(s) == s

strip(s) == rstrip(lstrip(s))

-----------------------------------------------------------------------------
(* json.dumps(obj, ensure_ascii=False, indent=2) *)

Digits == <<"0", "1", "2", "3", "4", "5", "6", "7", "8", "9">>

RECURSIVE dump_num(_)
dump_num(n) ==
    IF n < 10 THEN <<Digits[n + 1]>>
    ELSE dump_num(n \div 10) \o <<Digits[(n % 10) + 1]>>

\* faulty variant: no escaping inside a string
dump_char_raw(c) == <<c>>

dump_char(c) ==
    IF c = QUOTE THEN <<BSLASH, QUOTE>>
    ELSE IF c = BSLASH THEN <<BSLASH, BSLASH>>
    ELSE IF c = NL THEN <<BSLASH, "n">>
    ELSE <<c>>

RECURSIVE dump_chars(_)
dump_chars(s) ==
    IF s = <<>> THEN <<>> ELSE dump_char(Head(s)) \o dump_chars(Tail(s))

dump_str(s) == <<QUOTE>> \o dump_chars(s) \o <<QUOTE>>

RECURSIVE spaces(_)
spaces(n) == IF n = 0 THEN <<>> ELSE <<" ">> \o spaces(n - 1)

newline_indent(level) == <<NL>> \o spaces(2 * level)

RECURSIVE dump_value(_, _)
RECURSIVE dump_items(_, _, _)
RECURSIVE dump_pairs(_, _, _)

dump_value(x, level) ==
    CASE x.t = "str" -> dump_str(x.v)
      [] x.t = "num" -> dump_num(x.v)
      [] x.t = "none" -> <<"n", "u", "l", "l">>
      [] x.t = "list" ->
            IF x.v = <<>> THEN <<"[", "]">>
            ELSE <<"[">> \o dump_items(x.v, 1, level + 1)
                 \o newline_indent(level) \o <<"]">>
      [] x.t = "dict" ->
            IF x.v = <<>> THEN <<"{", "}">>
            ELSE <<"{">> \o dump_pairs(x.v, 1, level + 1)
                 \o newline_indent(level) \o <<"}">>

dump_items(s, i, level) ==
    IF i > Len(s) THEN <<>>
    ELSE (IF i > 1 THEN <<",">> ELSE <<>>)
         \o newline_indent(level) \o dump_value(s[i], level)
         \o dump_items(s, i + 1, level)

dump_pairs(s, i, level) ==
    IF i > Len(s) THEN <<>>
    ELSE (IF i > 1 THEN <<",">> ELSE <<>>)
         \o newline_indent(level) \o dump_str(s[i][1]) \o <<":", " ">>
         \o dump_value(s[i][2], level)
         \o dump_pairs(s, i + 1, level)

json_dumps(x) == dump_value(x, 0)

-----------------------------------------------------------------------------
(* json.load: a parse result is [ok, val, pos], pos the index after the    *)
(* value; a failed parse stands for json.JSONDecodeError.                  *)

Fail == [ok |-> FALSE, val |-> PNone, pos |-> 0]
Got(x, p) == [ok |-> TRUE, val |-> x, pos |-> p]

Ch(f, i) == IF i >= 1 /\ i <= Len(f) THEN f[i] ELSE "EOF"

IsDigit(c) == \E k \in 1..10 : Digits[k] = c
DigitVal(c) == (CHOOSE k \in 1..10 : Digits[k] = c) - 1

RECURSIVE skip_ws(_, _)
skip_ws(f, i) == IF IsSpace(Ch(f, i)) THEN skip_ws(f, i + 1) ELSE i

\* the body of a string, from the character after the opening quote
RECURSIVE parse_string(_, _, _)
parse_string(f, i, acc) ==
    LET c == Ch(f, i)
        e == Ch(f, i + 1)
    IN  CASE c = "EOF" -> Fail
          [] c = QUOTE -> Got(PStr(acc), i + 1)
          [] c = NL -> Fail
          [] c = BSLASH ->
                IF e = QUOTE \/ e = BSLASH THEN parse_string(f, i + 2, Append(acc, e))
                ELSE IF e = "n" THEN parse_string(f, i + 2, Append(acc, NL))
                ELSE Fail
          [] OTHER -> parse_string(f, i + 1, Append(acc, c))

\* 0 | [1-9][0-9]*
RECURSIVE parse_digits(_, _, _)
parse_digits(f, i, acc) ==
    IF IsDigit(Ch(f, i)) THEN parse_digits(f, i + 1, 10 * acc + DigitVal(Ch(f, i)))
    ELSE Got(PNum(acc), i)

parse_number(f, i) ==
    IF Ch(f, i) = "0" THEN Got(PNum(0), i + 1) ELSE parse_digits(f, i, 0)

RECURSIVE parse_value(_, _)
RECURSIVE parse_elements(_, _, _)
RECURSIVE parse_members(_, _, _)

parse_value(f, i) ==
    LET c == Ch(f, i)
        j == skip_ws(f, i + 1)
    IN  CASE c = QUOTE -> parse_string(f, i + 1, <<>>)
          [] IsDigit(c) -> parse_number(f, i)
          [] c = "n" ->
                IF SubSeq(f, i, Min(Len(f), i + 3)) = <<"n", "u", "l", "l">>
                THEN Got(PNone, i + 4) ELSE Fail
          [] c = "[" ->
                IF Ch(f, j) = "]" THEN Got(PList(<<>>), j + 1)
                ELSE parse_elements(f, j, <<>>)
          [] c = "{" ->
                IF Ch(f, j) = "}" THEN Got(PDict(<<>>), j + 1)
                ELSE parse_members(f, j, <<>>)
          [] OTHER -> Fail

\* the elements of an array, from the first character of an element
parse_elements(f, i, acc) ==
    LET r == parse_value(f, i)
        j == skip_ws(f, r.pos)
    IN  IF ~r.ok THEN Fail
        ELSE IF Ch(f, j) = "," THEN parse_elements(f, skip_ws(f, j + 1), Append(acc, r.val))
        ELSE IF Ch(f, j) = "]" THEN Got(PList(Append(acc, r.val)), j + 1)
        ELSE Fail

\* the members of an object, from the opening quote of a key; a repeated key
\* keeps its last value
parse_members(f, i, acc) ==
    LET k == parse_string(f, i + 1, <<>>)
        c == skip_ws(f, k.pos)
        r == parse_value(f, skip_ws(f, c + 1))
        j == skip_ws(f, r.pos)
    IN  IF Ch(f, i) # QUOTE THEN Fail
        ELSE IF ~k.ok THEN Fail
        ELSE IF Ch(f, c) # ":" THEN Fail
        ELSE IF ~r.ok THEN Fail
        ELSE IF Ch(f, j) = ","
             THEN parse_members(f, skip_ws(f, j + 1), dict_set(acc, k.val.v, r.val))
        ELSE IF Ch(f, j) = "}" THEN Got(PDict(dict_set(acc, k.val.v, r.val)), j + 1)
        ELSE Fail

\* the whole document: one value, whitespace around it, nothing after it
json_load(f) ==
    LET r == parse_value(f, skip_ws(f, 1))
    IN  IF ~r.ok THEN Fail
        ELSE IF skip_ws(f, r.pos) # Len(f) + 1 THEN Fail
        ELSE r

-----------------------------------------------------------------------------
(* Configuration and personas (system prompts cut to their first sentence) *)

DEFAULT_MODEL ==
    <<"g", "p", "t", "-", "3", ".", "5", "-", "t", "u", "r", "b", "o">>
P_RoastBot ==
    <<"R", "o", "a", "s", "t", "B", "o", "t">>
P_ShakespeareBot ==
    <<"S", "h", "a", "k", "e", "s", "p", "e", "a", "r", "e", "B", "o", "t">>
P_EmojiBot ==
    <<"E", "m", "o", "j", "i", "B", "o", "t">>

PersonaKeys == <<P_RoastBot, P_ShakespeareBot, P_EmojiBot>>

PERSONAS(key) ==
    [name |-> key, system |-> <<"Y", "o", "u", " ", "a", "r", "e", " ">> \o key]

\* the size of the trailing window of turns sent to the completion service
K == 24

NoFile == [exists |-> FALSE, data |-> <<>>]
FileOf(data) == [exists |-> TRUE, data |-> data]
EmptyList == PList(<<>>)

-----------------------------------------------------------------------------
(* Utility functions *)

\* json.dump({"saved_at": time.time(), "history": history}, f, indent=2, ...)
snapshot(h, t) == PDict(<< <<K_saved_at, PNum(t)>>, <<K_history, h>> >>)

\* save_history: io = "ok" writes the snapshot; "open_err" is open() raising
\* (the file stays as it was); "write_err" is the write raising after open()
\* truncated the file.  Both errors are caught and shown with st.error.
save_history(h, f, t, io) ==
    CASE io = "ok" -> FileOf(json_dumps(snapshot(h, t)))
      [] io = "open_err" -> f
      [] io = "write_err" -> FileOf(<<>>)

\* load_history: [ret, warn], warn when st.warning was shown
load_history(f) ==
    IF ~f.exists THEN [ret |-> EmptyList, warn |-> FALSE]
    ELSE LET r == json_load(f.data)
         IN  IF ~r.ok THEN [ret |-> EmptyList, warn |-> TRUE]
             \* data.get on a value that is no dict raises AttributeError
             ELSE IF r.val.t # "dict" THEN [ret |-> EmptyList, warn |-> TRUE]
             ELSE [ret |-> dict_get(r.val, K_history, EmptyList), warn |-> FALSE]

turn(role, text, t) ==
    PDict(<< <<K_role, PStr(role)>>, <<K_text, PStr(text)>>, <<K_ts, PNum(t)>> >>)

\* faulty variant: the list replaced by the new message
append_message_replace(h, role, text, t) == PList(<<turn(role, text, t)>>)

\* faulty variant: the message put first (history.insert(0, ...))
append_message_front(h, role, text, t) == PList(<<turn(role, text, t)>> \o h.v)

\* history.append({"role": role, "text": text, "ts": time.time()})
append_message(h, role, text, t) == PList(Append(h.v, turn(role, text, t)))

\* bool(x)
Truthy(x) ==
    CASE x.t = "none" -> FALSE
      [] x.t = "num" -> x.v # 0
      [] OTHER -> x.v # <<>>

\* render_chat: the drawn conversation, one entry per message; <<>> is the
\* "No messages yet" placeholder
render_msg(msg, persona_name) ==
    LET role == dict_get(msg, K_role, PStr(S_user))
    IN  [who |-> IF role = PStr(S_user) THEN <<"Y", "o", "u">> ELSE persona_name,
         text |-> dict_get(msg, K_text, PStr(<<>>)),
         ts |-> dict_get(msg, K_ts, PNum(0))]

render_chat(h, persona_name) ==
    IF ~Truthy(h) THEN <<>>
    ELSE [i \in 1..Len(h.v) |-> render_msg(h.v[i], persona_name)]

\* messages = [system] + [{"role": h["role"], "content": h["text"]} for the
\* last 24 turns]
prompt_message(role, content) ==
    PDict(<< <<K_role, role>>, <<K_content, content>> >>)

\* faulty variant: the first K turns instead of the last
window_front(h) == SubSeq(h.v, 1, Min(K, Len(h.v)))

window(h) == slice_last(h.v, K)

build_messages(h, persona) ==
    LET w == window(h)
    IN  <<prompt_message(PStr(S_system), PStr(persona.system))>>
        \o [i \in 1..Len(w) |->
              prompt_message(dict_get(w[i], K_role, PNone), dict_get(w[i], K_text, PNone))]

\* faulty variant: the prompt window exported instead of the conversation
export_data_last(h, key, model, t) ==
    PDict(<< <<K_exported_at, PNum(t)>>, <<K_persona, PStr(key)>>,
             <<K_model, PStr(model)>>, <<K_history, PList(slice_last(h.v, 1))>> >>)

\* export_data
export_data(h, key, model, t) ==
    PDict(<< <<K_exported_at, PNum(t)>>, <<K_persona, PStr(key)>>,
             <<K_model, PStr(model)>>, <<K_history, h>> >>)

-----------------------------------------------------------------------------
(* The session: every action is one run of the script, caused by one user  *)
(* interaction, together with the rerun that st.rerun() starts.            *)

\* what the text box may hold when Send is pressed: nothing, whitespace only,
\* or a message with whitespace around it
Inputs ==
    { <<>>, <<" ", NL>>, <<" ", "h", QUOTE, BSLASH, NL>> }

\* what the completion call may do: raise, answer with no content, or answer
Replies == { <<" ", "o", "k", NL>> }
Outcomes == {"raise", "no_content", "reply"}
IoOutcomes == {"ok", "open_err", "write_err"}

Turns == history.v

\* first run of a session (lines 94-116): widgets at their defaults, the
\* history initialised, the conversation drawn
Init ==
    /\ persist_to_disk = FALSE
    /\ persona_key = PersonaKeys[1]
    /\ file = NoFile
    /\ history = IF persist_to_disk THEN load_history(file).ret ELSE EmptyList
    /\ rendered = <<>>
    /\ messages = <<>>
    /\ calls = 0
    /\ notice = "none"
    /\ export_json = <<>>
    /\ now = 0
    /\ trigger = "start"

\* a new browser session: session_state is fresh and the widgets are back at
\* their defaults, while the file and the clock stay
NewSession ==
    /\ persist_to_disk' = FALSE
    /\ persona_key' = PersonaKeys[1]
    /\ history' = IF persist_to_disk' THEN load_history(file).ret ELSE EmptyList
    /\ rendered' = render_chat(history', PERSONAS(persona_key').name)
    /\ messages' = <<>>
    /\ calls' = 0
    /\ notice' = "none"
    /\ export_json' = <<>>
    /\ trigger' = "start"
    /\ UNCHANGED <<file, now>>

\* a run with no button pressed draws the conversation and nothing else
Redraw(what) ==
    /\ rendered' = render_chat(history, PERSONAS(persona_key').name)
    /\ messages' = <<>>
    /\ calls' = 0
    /\ notice' = "none"
    /\ export_json' = <<>>
    /\ trigger' = what
    /\ UNCHANGED <<history, file, now>>

TogglePersist ==
    /\ persist_to_disk' = ~persist_to_disk
    /\ UNCHANGED persona_key
    /\ Redraw("toggle")

SelectPersona(key) ==
    /\ key # persona_key
    /\ persona_key' = key
    /\ UNCHANGED persist_to_disk
    /\ Redraw("persona")

\* time passes between interactions
Tick ==
    /\ now < MaxClock
    /\ now' = now + 1
    /\ UNCHANGED <<history, file, persist_to_disk, persona_key,
                   rendered, messages, calls, notice, export_json, trigger>>

\* Handle Send (lines 132-161).  The completion call takes d ticks.
Send(cap, inp, outcome, reply, d, io) ==
    LET user_text == strip(inp)
        persona == PERSONAS(persona_key)
        h1 == append_message(history, S_user, user_text, now)
        msgs == build_messages(h1, persona)
        h2 == append_message(h1, S_assistant, strip(reply), now + d)
    IN  /\ history.t = "list"
        /\ user_text # <<>> =>
              Len(history.v) + (IF outcome = "reply" THEN 2 ELSE 1) <= cap
        /\ now + d <= MaxClock
        /\ export_json' = <<>>
        /\ UNCHANGED <<persist_to_disk, persona_key>>
        /\ IF user_text = <<>>
           THEN \* st.warning("Please type a message!")
                /\ notice' = "warning"
                /\ rendered' = render_chat(history, persona.name)
                /\ messages' = <<>>
                /\ calls' = 0
                /\ trigger' = "send_empty"
                /\ UNCHANGED <<history, file, now>>
           ELSE /\ messages' = msgs
                /\ calls' = 1
                /\ now' = now + d
                /\ IF outcome = "reply"
                   THEN \* assistant turn, optional save, st.rerun()
                        /\ history' = h2
                        /\ file' = IF persist_to_disk
                                   THEN save_history(h2, file, now + d, io)
                                   ELSE file
                        /\ rendered' = render_chat(h2, persona.name)
                        /\ notice' = IF persist_to_disk /\ io # "ok"
                                     THEN "save_error" ELSE "none"
                        /\ trigger' = "send_ok"
                   ELSE \* except Exception: st.error(...), no rerun: the page
                        \* keeps the conversation drawn at line 114
                        /\ history' = h1
                        /\ rendered' = render_chat(history, persona.name)
                        /\ notice' = "error"
                        /\ trigger' = "send_fail"
                        /\ UNCHANGED file

\* faulty variant: the conversation reset only together with the file
Clear_with_file ==
    /\ history' = IF persist_to_disk THEN EmptyList ELSE history
    /\ file' = IF persist_to_disk /\ file.exists THEN NoFile ELSE file
    /\ rendered' = render_chat(history', PERSONAS(persona_key).name)
    /\ messages' = <<>>
    /\ calls' = 0
    /\ notice' = "success"
    /\ export_json' = <<>>
    /\ trigger' = "clear"
    /\ UNCHANGED <<persist_to_disk, persona_key, now>>

\* Handle Clear History (lines 164-169), st.rerun() included
Clear ==
    /\ history' = EmptyList
    /\ file' = IF persist_to_disk /\ file.exists THEN NoFile ELSE file
    /\ rendered' = render_chat(history', PERSONAS(persona_key).name)
    /\ messages' = <<>>
    /\ calls' = 0
    /\ notice' = "success"
    /\ export_json' = <<>>
    /\ trigger' = "clear"
    /\ UNCHANGED <<persist_to_disk, persona_key, now>>

\* Handle Export (lines 172-180)
Export ==
    /\ export_json' = json_dumps(export_data(history, persona_key, DEFAULT_MODEL, now))
    /\ rendered' = render_chat(history, PERSONAS(persona_key).name)
    /\ messages' = <<>>
    /\ calls' = 0
    /\ notice' = "none"
    /\ trigger' = "export"
    /\ UNCHANGED <<history, file, persist_to_disk, persona_key, now>>

\* Send pressed with nothing to send: the handler ends before the call, so the
\* outcome of the call, its duration and the disk are not enumerated
SendBlank(cap, inp) == Send(cap, inp, "raise", <<>>, 0, "ok")

\* only a reply with the box checked reaches save_history
SendAny(cap) ==
    \E inp \in Inputs :
        IF strip(inp) = <<>>
        THEN SendBlank(cap, inp)
        ELSE \E outcome \in Outcomes, reply \in Replies, d \in 0..1 :
                \E io \in IF outcome = "reply" /\ persist_to_disk
                            THEN IoOutcomes ELSE {"ok"} :
                    Send(cap, inp, outcome, reply, d, io)

Next ==
    \/ SendAny(MaxTurns)
    \/ Clear
    \/ Export
    \/ TogglePersist
    \/ \E i \in 1..Len(PersonaKeys) : SelectPersona(PersonaKeys[i])
    \/ NewSession
    \/ Tick

Spec == Init /\ [][Next]_vars

-----------------------------------------------------------------------------
(* save_history and load_history on their own: the conversations and the   *)
(* files they are applied to                                               *)

SampleTexts == { <<>>, <<QUOTE, "a">>, <<BSLASH, NL>> }
SampleStamps == {0, 105}
SampleTurns ==
    { turn(role, text, t) :
        role \in {S_user, S_assistant}, text \in SampleTexts, t \in SampleStamps }

RECURSIVE SeqsUpTo(_, _)
SeqsUpTo(S, n) ==
    IF n = 0 THEN { <<>> }
    ELSE LET shorter == SeqsUpTo(S, n - 1)
         IN  shorter \cup { Append(q, x) : q \in shorter, x \in S }

SampleConversations == { PList(q) : q \in SeqsUpTo(SampleTurns, MaxSampleTurns) }

\* an empty file
F_empty ==
    <<>>
\* a snapshot cut short
F_cut ==
    <<"{", NL, " ", " ", QUOTE, "s", "a", "v", "e", "d", "_", "a", "t",
    QUOTE, ":", " ", "5", ",", NL, " ", " ", QUOTE, "h", "i", "s", "t", "o",
    "r", "y", QUOTE, ":", " ", "[">>
\* text after the document
F_trailing ==
    <<"{", QUOTE, "h", "i", "s", "t", "o", "r", "y", QUOTE, ":", " ", "[",
    "]", "}", " ", "x">>
\* a list
F_list ==
    <<"[", "]">>
\* a number
F_number ==
    <<"7">>
\* a string
F_string ==
    <<QUOTE, "a", QUOTE>>
\* null
F_null ==
    <<"n", "u", "l", "l">>
\* an object without "history"
F_no_history ==
    <<"{", QUOTE, "s", "a", "v", "e", "d", "_", "a", "t", QUOTE, ":", " ",
    "5", "}">>
\* "history" a string
F_history_string ==
    <<"{", QUOTE, "h", "i", "s", "t", "o", "r", "y", QUOTE, ":", " ", QUOTE,
    "h", "i", QUOTE, "}">>
\* "history" a number
F_history_number ==
    <<"{", QUOTE, "h", "i", "s", "t", "o", "r", "y", QUOTE, ":", " ", "7",
    "}">>
\* "history" null
F_history_null ==
    <<"{", QUOTE, "h", "i", "s", "t", "o", "r", "y", QUOTE, ":", " ", "n",
    "u", "l", "l", "}">>
\* "history" an object
F_history_object ==
    <<"{", QUOTE, "h", "i", "s", "t", "o", "r", "y", QUOTE, ":", " ", "{",
    QUOTE, "r", "o", "l", "e", QUOTE, ":", " ", QUOTE, "u", "s", "e", "r",
    QUOTE, "}", "}">>
\* "history" a list of numbers
F_history_numbers ==
    <<"{", QUOTE, "h", "i", "s", "t", "o", "r", "y", QUOTE, ":", " ", "[",
    "7", "]", "}">>
\* an empty snapshot
F_history_empty ==
    <<"{", QUOTE, "s", "a", "v", "e", "d", "_", "a", "t", QUOTE, ":", " ",
    "5", ",", " ", QUOTE, "h", "i", "s", "t", "o", "r", "y", QUOTE, ":", 
    " ", "[", "]", "}">>
\* "history" given twice
F_history_twice ==
    <<"{", QUOTE, "h", "i", "s", "t", "o", "r", "y", QUOTE, ":", " ", "7",
    ",", " ", QUOTE, "h", "i", "s", "t", "o", "r", "y", QUOTE, ":", " ",
    "[", "]", "}">>

SampleFiles ==
    { FileOf(d) : d \in
        { F_empty, F_cut, F_trailing, F_list, F_number, F_string, F_null,
          F_no_history, F_history_string, F_history_number, F_history_null,
          F_history_object, F_history_numbers, F_history_empty,
          F_history_twice } }

InitIO ==
    /\ \/ history \in SampleConversations /\ file = NoFile
       \/ history = EmptyList /\ file \in SampleFiles
    /\ persist_to_disk = TRUE
    /\ persona_key = PersonaKeys[1]
    /\ rendered = <<>>
    /\ messages = <<>>
    /\ calls = 0
    /\ notice = "none"
    /\ export_json = <<>>
    /\ now \in {0, 12}
    /\ trigger = "start"

\* save_history(st.session_state.history), as line 156 calls it
Save(io) ==
    /\ file' = save_history(history, file, now, io)
    /\ notice' = IF io = "ok" THEN "none" ELSE "save_error"
    /\ trigger' = IF io = "ok" THEN "save" ELSE "save_err"
    /\ UNCHANGED <<history, persist_to_disk, persona_key, rendered, messages,
                   calls, export_json, now>>

\* st.session_state.history = load_history(PERSIST_FILE), as line 110 calls it
Load ==
    /\ history' = load_history(file).ret
    /\ notice' = IF load_history(file).warn THEN "warning" ELSE "none"
    /\ trigger' = "load"
    /\ UNCHANGED <<file, persist_to_disk, persona_key, rendered, messages,
                   calls, export_json, now>>

NextIO ==
    \/ \E io \in IoOutcomes : Save(io)
    \/ Load

SpecIO == InitIO /\ [][NextIO]_vars

-----------------------------------------------------------------------------
(* Send on long conversations: the session after n turns, n around the     *)
(* size of the window                                                      *)

RECURSIVE Conversation(_)
Conversation(n) ==
    IF n = 0 THEN <<>>
    ELSE Append(Conversation(n - 1),
                turn(IF n % 2 = 1 THEN S_user ELSE S_assistant, dump_num(n), 0))

InitW ==
    /\ \E n \in (K - WindowSlack)..(K + WindowSlack) : history = PList(Conversation(n))
    /\ file = NoFile
    /\ persist_to_disk = FALSE
    /\ persona_key = PersonaKeys[1]
    /\ rendered = render_chat(history, PERSONAS(persona_key).name)
    /\ messages = <<>>
    /\ calls = 0
    /\ notice = "none"
    /\ export_json = <<>>
    /\ now = 0
    /\ trigger = "toggle"

NextW ==
    \/ SendAny(K + WindowSlack + 1)
    \/ \E i \in 1..Len(PersonaKeys) : SelectPersona(PersonaKeys[i])

SpecW == InitW /\ [][NextW]_vars

-----------------------------------------------------------------------------
(* Properties *)

RoleOf(msg) == dict_get(msg, K_role, PNone)
TextOf(msg) == dict_get(msg, K_text, PNone)
StampOf(msg) == dict_get(msg, K_ts, PNone)

IsBlank(inp) == \A i \in 1..Len(inp) : inp[i] \in {" ", NL}

\* the "history" of a JSON document, PNone when the text is no JSON object
HistoryIn(data) ==
    LET r == json_load(data)
    IN  IF r.ok /\ r.val.t = "dict" THEN dict_get(r.val, K_history, PNone) ELSE PNone

IsTurn(x) ==
    /\ x.t = "dict"
    /\ RoleOf(x) \in {PStr(S_user), PStr(S_assistant)}
    /\ TextOf(x).t = "str"
    /\ StampOf(x).t = "num"

IsConversation(x) == x.t = "list" /\ \A i \in 1..Len(x.v) : IsTurn(x.v[i])

\* C1: every Send with a non-blank input lengthens the conversation by exactly
\* two turns, the user's and then the assistant's, when the completion call
\* succeeds, and by exactly one, the user's turn kept as the last, when it fails
\* (a step that is not the mere passage of time and ends in "send_ok" or
\* "send_fail" is such a Send)
C1_SendLength ==
    [][(trigger' \in {"send_ok", "send_fail"} /\ ~Tick) =>
          LET n == Len(history.v)
              h == history'.v
          IN  /\ Len(h) >= n
              /\ SubSeq(h, 1, n) = history.v
              /\ IF trigger' = "send_ok"
                 THEN /\ Len(h) = n + 2
                      /\ RoleOf(h[n + 1]) = PStr(S_user)
                      /\ RoleOf(h[n + 2]) = PStr(S_assistant)
                 ELSE /\ Len(h) = n + 1
                      /\ RoleOf(h[n + 1]) = PStr(S_user)]_vars

\* a successful Send followed by a failed one
C1_Witness ==
    /\ trigger = "send_fail"
    /\ Len(Turns) = 3
    /\ RoleOf(Turns[2]) = PStr(S_assistant)
    /\ RoleOf(Turns[3]) = PStr(S_user)

\* C2: a Send whose input is empty or only whitespace changes neither the
\* conversation nor the file, calls the completion client not at all, and
\* shows a warning
C2_BlankSendNoOp ==
    [][\A inp \in Inputs :
          (/\ IsBlank(inp)
           /\ trigger' \in {"send_ok", "send_fail", "send_empty"}
           /\ SendBlank(MaxTurns, inp)) =>
              /\ history' = history
              /\ file' = file
              /\ calls' = 0
              /\ messages' = <<>>
              /\ notice' = "warning"]_vars

\* a blank Send on a conversation under way, with the box checked and a file
C2_Witness ==
    /\ trigger = "send_empty"
    /\ notice = "warning"
    /\ Len(Turns) >= 2
    /\ persist_to_disk
    /\ file.exists

\* C3: Clear leaves an empty conversation whatever its length and whatever the
\* checkbox, and a Clear right after a Clear changes neither the conversation
\* nor the file
C3_ClearIdempotent ==
    [][(trigger' = "clear" /\ Clear) =>
         /\ history' = EmptyList
         /\ (trigger = "clear" => history' = history /\ file' = file)]_vars

\* a Clear that emptied a conversation and removed its file
C3_Witness ==
    /\ trigger = "clear"
    /\ persist_to_disk
    /\ ~file.exists
    /\ Turns = <<>>

\* C4: load_history applied to the file save_history wrote for a conversation
\* returns that conversation: the same turns in the same order, each with its
\* role, text and timestamp
C4_RoundTrip ==
    [][(trigger = "save" /\ Load) => (notice' = "none" /\ history' = history)]_vars

\* a two-turn conversation with escaped characters, read back from its file
C4_Witness ==
    /\ trigger = "load"
    /\ notice = "none"
    /\ IsConversation(history)
    /\ Len(Turns) = 2
    /\ TextOf(Turns[1]) = PStr(<<QUOTE, "a">>)
    /\ TextOf(Turns[2]) = PStr(<<BSLASH, NL>>)
    /\ StampOf(Turns[2]) = PNum(105)

\* C5: Export changes neither the conversation nor the file, and the "history"
\* of its output is the conversation in memory (only Export sets the trigger
\* to "export", and nothing changes the conversation while it stays so)
C5_ExportPureRead ==
    /\ [][trigger' = "export" => (history' = history /\ file' = file)]_vars
    /\ [](trigger = "export" =>
            LET r == json_load(export_json)
            IN  /\ r.ok
                /\ r.val.t = "dict"
                /\ dict_get(r.val, K_history, PNone) = history)

\* an export of a conversation of two turns or more, the box unchecked and a
\* file on disk that differs from it
C5_Witness ==
    /\ trigger = "export"
    /\ Len(Turns) >= 2
    /\ ~persist_to_disk
    /\ file.exists
    /\ HistoryIn(file.data) # history
    /\ HistoryIn(export_json) = history

\* a file that holds a Persisted Snapshot: a JSON object whose "history" is a
\* list of turns
WellFormedSnapshot(f) ==
    LET r == json_load(f.data)
    IN  /\ f.exists
        /\ r.ok
        /\ r.val.t = "dict"
        /\ dict_find(r.val.v, K_history, 1) # 0
        /\ IsConversation(dict_get(r.val, K_history, PNone))

\* C6: load_history returns an empty conversation for a missing file, and an
\* empty conversation with a warning for every file that holds no well-formed
\* snapshot
C6_LoadFailsSoft ==
    trigger = "load" =>
        /\ ~file.exists => history = EmptyList
        /\ (file.exists /\ ~WellFormedSnapshot(file)) =>
              (history = EmptyList /\ notice = "warning")

Stamps == [i \in 1..Len(Turns) |-> StampOf(Turns[i]).v]

C8_ShownIsStored ==
    trigger \in {"send_ok", "send_fail", "send_empty", "clear", "export"} =>
        rendered = render_chat(history, PERSONAS(persona_key).name)

\* C9: with the box checked, the file holds the conversation after a Send with
\* a non-blank input, and there is no file after a Clear (read for a disk that
\* works: a run in which save_history reported an error is left aside)
C9_DiskMirrorsMemory ==
    (persist_to_disk /\ notice # "save_error") =>
        /\ trigger \in {"send_ok", "send_fail"} =>
              (file.exists /\ HistoryIn(file.data) = history)
        /\ trigger = "clear" => ~file.exists

\* the conversation as it was when the completion client was called
CalledWith ==
    IF trigger = "send_ok" THEN SubSeq(Turns, 1, Len(Turns) - 1) ELSE Turns

\* C10: the prompt of a Send is the persona's system prompt followed by the
\* last min(24, n) turns, in order, n counted with the new user turn; it has
\* at most 25 messages, ends with the new user turn, and is sent once
C10_Prompt ==
    trigger \in {"send_ok", "send_fail"} =>
        LET h == CalledWith
            n == Len(h)
            m == IF n < 24 THEN n ELSE 24
        IN  /\ calls = 1
            /\ Len(messages) = 1 + m
            /\ Len(messages) <= 25
            /\ messages[1] =
                  prompt_message(PStr(S_system), PStr(PERSONAS(persona_key).system))
            /\ \A i \in 1..m :
                  messages[1 + i] =
                      prompt_message(RoleOf(h[n - m + i]), TextOf(h[n - m + i]))
            /\ RoleOf(h[n]) = PStr(S_user)
            /\ messages[Len(messages)] = prompt_message(PStr(S_user), TextOf(h[n]))

\* a successful Send on a conversation longer than the window
C10_Witness ==
    /\ trigger = "send_ok"
    /\ Len(Turns) > 25
    /\ calls = 1
    /\ Len(messages) = 25

====
